---- MODULE Spec2Model ----
(***************************************************************************)
(* Order processing engine: the SQS batch consumer (handler), the order    *)
(* state machine (process_order), the step executors, the order store     *)
(* (DynamoDB table keyed by orderId + timestamp) and the notification and  *)
(* metrics sinks, together with the ingestion create_order that produces   *)
(* the PENDING records.                                                    *)
(*                                                                         *)
(* Optional values (a dictionary key that may be absent) are sequences of  *)
(* length 0 (absent) or 1 (present).                                       *)
(***************************************************************************)
EXTENDS Integers, Sequences, FiniteSets, TLC

\* ------------------------------------------------------------------ bounds
\* longest event['Records'] list handed to one handler invocation
MaxBatch == 2
\* handler invocations of the single consumer over the whole run
MaxInvocations == 1
\* deliveries to the two overlapping consumers over the whole run
MaxDeliveries == 2

\* concurrent instances of the order processing function
Workers == {"w1", "w2"}

\* uuid4 values, in the order create_order draws them: one order is created
\* and followed through the pipeline
UUIDs == <<"o1">>

None == <<>>
Some(v) == <<v>>
Has(opt) == Len(opt) = 1
Val(opt) == opt[1]

\* ------------------------------------------------------------ order store
\* items value of a record: a list of product ids, or a JSON value that is
\* not a list (a number)
ItemList(ps) == [list |-> TRUE, elems |-> ps]
NotAList == [list |-> FALSE, elems |-> <<>>]

\* the items of the table whose partition key is order_id
ItemsOf(tbl, order_id) == {r \in tbl : r.orderId = order_id}

RECURSIVE SortByTimestamp(_)
\* a partition's items in ascending sort-key (timestamp) order
SortByTimestamp(rs) ==
    IF rs = {} THEN <<>>
    ELSE LET first == CHOOSE r \in rs : \A q \in rs : r.timestamp <= q.timestamp
         IN  <<first>> \o SortByTimestamp(rs \ {first})

\* table.query(KeyConditionExpression=Key('orderId').eq(order_id))['Items']
Query(tbl, order_id) == SortByTimestamp(ItemsOf(tbl, order_id))

\* table.put_item(Item=item): replaces the item with the same key
PutItem(tbl, item) ==
    {r \in tbl : ~(r.orderId = item.orderId /\ r.timestamp = item.timestamp)}
        \cup {item}

\* variant: the item is written anew with put_item, holding the key, the
\* status and the error message only
UpdateItem_PutItem(tbl, order_id, timestamp, status, error_message) ==
    PutItem(tbl, [orderId |-> order_id, timestamp |-> timestamp,
                  customerId |-> None, items |-> None, totalAmount |-> None,
                  status |-> Some(status),
                  errorMessage |-> IF Has(error_message) /\ Val(error_message) # ""
                                   THEN error_message ELSE None])

\* variant: errorMessage is part of every update expression, also without an
\* error message (the attribute is then written as NULL)
UpdateItem_AlwaysError(tbl, order_id, timestamp, status, error_message) ==
    LET hit == {r \in tbl : r.orderId = order_id /\ r.timestamp = timestamp}
        set(r) == [r EXCEPT !.status = Some(status),
                            !.errorMessage = IF Has(error_message) THEN error_message
                                             ELSE Some("NULL")]
        fresh == [orderId |-> order_id, timestamp |-> timestamp,
                  customerId |-> None, items |-> None, totalAmount |-> None,
                  status |-> None, errorMessage |-> None]
    IN  IF hit = {} THEN tbl \cup {set(fresh)}
        ELSE (tbl \ hit) \cup {set(r) : r \in hit}

\* table.update_item(Key, "SET #status = :status, updatedAt = :updated_at
\* [, errorMessage = :error_message]"): sets the named attributes of the
\* item with that key and creates the item when there is none
UpdateItem(tbl, order_id, timestamp, status, error_message) ==
    LET hit == {r \in tbl : r.orderId = order_id /\ r.timestamp = timestamp}
        set(r) == [r EXCEPT !.status = Some(status),
                            !.errorMessage = IF Has(error_message) /\ Val(error_message) # ""
                                             THEN error_message ELSE @]
        fresh == [orderId |-> order_id, timestamp |-> timestamp,
                  customerId |-> None, items |-> None, totalAmount |-> None,
                  status |-> None, errorMessage |-> None]
    IN  IF hit = {} THEN tbl \cup {set(fresh)}
        ELSE (tbl \ hit) \cup {set(r) : r \in hit}

\* --------------------------------------------------------- step executors
\* amounts are integers; this one stands for a totalAmount that is not a
\* number (a string such as "abc"), on which float() and Decimal() raise
NotNumeric == 1000000

\* variant: every value that is present counts as given
Truthy_Always(field, order) == TRUE

\* truthiness of a dictionary value, as `not order[field]` tests it
Truthy(field, order) ==
    CASE field = "customerId"  -> Val(order.customerId) # ""
      [] field = "items"       -> ~Val(order.items).list \/ Len(Val(order.items).elems) > 0
      [] field = "totalAmount" -> Val(order.totalAmount) # 0

FieldOf(field, order) ==
    CASE field = "customerId"  -> order.customerId
      [] field = "items"       -> order.items
      [] field = "totalAmount" -> order.totalAmount

required_fields == <<"customerId", "items", "totalAmount">>

\* variant: only the presence of the required fields is tested
validate_order_PresenceOnly(order) ==
    \A i \in 1..Len(required_fields) : Has(FieldOf(required_fields[i], order))

\* variant: float() takes every value for a number
validate_order_NoFault(order) ==
    IF \E i \in 1..Len(required_fields) :
          ~Has(FieldOf(required_fields[i], order)) \/ ~Truthy(required_fields[i], order)
    THEN FALSE
    ELSE IF ~Val(order.items).list \/ Len(Val(order.items).elems) = 0
    THEN FALSE
    ELSE IF Val(order.totalAmount) <= 0
    THEN FALSE
    ELSE TRUE

\* float(order['totalAmount']) raises on a value that is not a number and
\* the except clause returns False
validate_order(order) ==
    IF \E i \in 1..Len(required_fields) :
          ~Has(FieldOf(required_fields[i], order)) \/ ~Truthy(required_fields[i], order)
    THEN FALSE
    ELSE IF ~Val(order.items).list \/ Len(Val(order.items).elems) = 0
    THEN FALSE
    ELSE IF Val(order.totalAmount) = NotNumeric
    THEN FALSE
    ELSE IF Val(order.totalAmount) <= 0
    THEN FALSE
    ELSE TRUE

\* shortage[i] is the outcome of `random.random() < 0.1` for item i
check_inventory(order, shortage) ==
    IF ~Has(order.items) \/ ~Val(order.items).list
    THEN FALSE
    ELSE ~\E i \in 1..Len(Val(order.items).elems) : shortage[i]

\* declined is the outcome of `random.random() < 0.05`
process_payment(order, declined) ==
    IF ~Has(order.totalAmount) \/ Val(order.totalAmount) = NotNumeric
    THEN FALSE
    ELSE ~declined

fulfill_order(order) ==
    IF ~Has(order.items) \/ ~Val(order.items).list
    THEN FALSE
    ELSE TRUE

\* variant: the last stage goes by another name
processing_steps_Shipping ==
    << [status |-> "VALIDATING",         fn |-> "validate_order"],
       [status |-> "INVENTORY_CHECK",    fn |-> "check_inventory"],
       [status |-> "PAYMENT_PROCESSING", fn |-> "process_payment"],
       [status |-> "SHIPPING",           fn |-> "fulfill_order"] >>

\* variant: each status names the stage that has been completed, not the one
\* that is starting
processing_steps_Lagging ==
    << [status |-> "PENDING",            fn |-> "validate_order"],
       [status |-> "VALIDATING",         fn |-> "check_inventory"],
       [status |-> "INVENTORY_CHECK",    fn |-> "process_payment"],
       [status |-> "PAYMENT_PROCESSING", fn |-> "fulfill_order"] >>

processing_steps ==
    << [status |-> "VALIDATING",         fn |-> "validate_order"],
       [status |-> "INVENTORY_CHECK",    fn |-> "check_inventory"],
       [status |-> "PAYMENT_PROCESSING", fn |-> "process_payment"],
       [status |-> "FULFILLMENT",        fn |-> "fulfill_order"] >>

\* the random draws one executor call may consume
Draws(order) ==
    [shortage : [1..(IF Has(order.items) THEN Len(Val(order.items).elems) ELSE 0) -> BOOLEAN],
     declined : BOOLEAN]

\* processing_function(order)
RunStep(k, order, draw) ==
    CASE k = 1 -> validate_order(order)
      [] k = 2 -> check_inventory(order, draw.shortage)
      [] k = 3 -> process_payment(order, draw.declined)
      [] k = 4 -> fulfill_order(order)

\* variant: the message does not name the step
FailedAt_NoStep(status) == "Failed at step"

\* f"Failed at {status}"
FailedAt(status) == "Failed at " \o status

\* ------------------------------------------------------------- SQS records
\* message body: text that is not JSON, or a JSON object with optional keys
BadJson == [json |-> FALSE, orderId |-> None, action |-> None]
JsonBody(order_id, action) == [json |-> TRUE, orderId |-> order_id, action |-> action]

SQSRecord(message_id, body) == [messageId |-> message_id, body |-> body]

\* order ids that queue messages name: the first created order and an id
\* that has no record
GhostId == "ghost"
MsgOrderIds == {UUIDs[1], GhostId}

\* the records a batch is made of
SQSRecords ==
    { SQSRecord(Some("m-" \o o), Some(JsonBody(Some(o), Some("PROCESS_ORDER")))) : o \in MsgOrderIds }
    \cup
    { SQSRecord(Some("m-cancel"),   Some(JsonBody(Some(UUIDs[1]), Some("CANCEL_ORDER")))),
      SQSRecord(Some("m-noaction"), Some(JsonBody(Some(UUIDs[1]), None))),
      SQSRecord(None,               Some(BadJson)) }

RECURSIVE SeqsUpTo(_, _)
SeqsUpTo(S, n) ==
    IF n = 0 THEN {<<>>}
    ELSE LET shorter == SeqsUpTo(S, n - 1)
         IN  shorter \cup {Append(s, x) : s \in {t \in shorter : Len(t) = n - 1}, x \in S}

Batches == SeqsUpTo(SQSRecords, MaxBatch)

\* json.loads(record['body']); message_body['orderId']; message_body['action']:
\* TRUE when all three succeed
Decodes(record) ==
    /\ Has(record.body)
    /\ Val(record.body).json
    /\ Has(Val(record.body).orderId)
    /\ Has(Val(record.body).action)

\* record.get('messageId', 'unknown')
MessageIdOf(record) == IF Has(record.messageId) THEN Val(record.messageId) ELSE "unknown"

\* the batches of overlapping invocations: each is the delivery of one
\* message, that of the first order, an unknown action or an undecodable body
Redeliveries ==
    { <<r>> : r \in {q \in SQSRecords :
                        MessageIdOf(q) \in {"m-" \o UUIDs[1], "m-cancel", "unknown"}} }

\* ------------------------------------------------- ingestion request bodies
Request(c, i, t) == [customerId |-> c, items |-> i, totalAmount |-> t]

Requests ==
    { Request(Some("c1"), Some(ItemList(<<"X">>)), Some(10)),
      Request(Some("c1"), Some(ItemList(<<>>)),    Some(10)),
      Request(Some("c1"), Some(ItemList(<<"X">>)), Some(0)),
      Request(Some("c1"), None,                    Some(10)) }

\* --------------------------------------------------- tables with a history
\* attribute values a stored order can come with: a key that is absent, an
\* empty value, a value of another type, a well-formed value
StoredFields ==
    [customerId  : {None, Some(""), Some("c1")},
     items       : {None, Some(ItemList(<<>>)), Some(ItemList(<<"X">>)), Some(NotAList)},
     totalAmount : {None, Some(-1), Some(0), Some(10), Some(NotNumeric)}]

\* the item of the first order written at timestamp ts
Stored(ts, f, status) ==
    [orderId |-> UUIDs[1], timestamp |-> ts,
     customerId |-> f.customerId, items |-> f.items, totalAmount |-> f.totalAmount,
     status |-> Some(status), errorMessage |-> None]

\* contents of the orders table when the processor meets it: one PENDING
\* item with any attribute values, or two items under the same orderId with
\* different sort keys (timestamps 1 and 2), which the key schema allows
HistoryTables ==
    { {Stored(1, f, "PENDING")} : f \in StoredFields }
    \cup
    { {Stored(1, Request(Some("c1"), Some(ItemList(<<"X">>)), Some(10)), s1),
       Stored(2, Request(Some("c1"), Some(ItemList(<<"X">>)), Some(10)), s2)} :
         s1 \in {"PENDING", "COMPLETED"}, s2 \in {"PENDING", "COMPLETED"} }

\* path parameters of the GET requests
PathOrderIds == MsgOrderIds \cup {""}

\* the deliveries of single messages, and of an empty record list
Deliveries == SeqsUpTo(SQSRecords, 1)

\* ------------------------------------------------------------------ state
VARIABLES
    table,             \* the orders table: a set of items
    queue,             \* messages create_order has sent to the queue
    SNS_TOPIC_ARN,     \* TRUE when the environment variable is set
    retrieved,         \* the response of the latest get_order request, absent before the first
    pipelines,         \* times process_order has passed the gate and entered the step
                       \* loop: 0, 1, or 2 for twice and more
    terminals,         \* send_order_notification calls process_order has made: 0, 1, or
                       \* 2 for two and more
    landed,            \* TRUE once an update_item call of the processor has taken effect
    invocations,       \* handler invocations started so far
    pc,                \* per worker: where its handler invocation stands
    event,             \* per worker: event['Records'], absent when the event has no such key
    idx,               \* per worker: position of the for loop in Records
    processed_orders,  \* per worker: handler local list
    failed_orders,     \* per worker: handler local list
    order,             \* per worker: process_order local `order`
    step,              \* per worker: position in processing_steps
    calls,             \* per worker: executor calls of the current record
    writes,            \* per worker: statuses update_order_status was called with, current record
    wrote,             \* per worker: TRUE when its latest update_item call took effect
    interfered,        \* per worker: TRUE when another invocation has written the record
                       \* of its current order since it loaded that record
    notes,             \* per worker: send_order_notification calls of the current record
    po,                \* per worker: how process_order ended for the current record
    metrics,           \* per worker: send_processing_metrics calls of the invocation
    response           \* per worker: value the handler returned

vars == <<table, queue, SNS_TOPIC_ARN, retrieved, pipelines, terminals, landed, invocations, pc, event, idx, processed_orders,
          failed_orders, order, step, calls, writes, wrote, interfered, notes, po, metrics, response>>

shared == <<table, queue, SNS_TOPIC_ARN>>

Init ==
    /\ table = {}
    /\ queue = <<>>
    /\ SNS_TOPIC_ARN \in BOOLEAN
    /\ retrieved = None
    /\ pipelines = 0
    /\ terminals = 0
    /\ landed = FALSE
    /\ invocations = 0
    /\ pc = [w \in Workers |-> "idle"]
    /\ event = [w \in Workers |-> None]
    /\ idx = [w \in Workers |-> 1]
    /\ processed_orders = [w \in Workers |-> <<>>]
    /\ failed_orders = [w \in Workers |-> <<>>]
    /\ order = [w \in Workers |-> None]
    /\ step = [w \in Workers |-> 1]
    /\ calls = [w \in Workers |-> <<>>]
    /\ writes = [w \in Workers |-> <<>>]
    /\ wrote = [w \in Workers |-> FALSE]
    /\ interfered = [w \in Workers |-> FALSE]
    /\ notes = [w \in Workers |-> <<>>]
    /\ po = [w \in Workers |-> "none"]
    /\ metrics = [w \in Workers |-> <<>>]
    /\ response = [w \in Workers |-> None]

\* one more occurrence of what n counts: none, one, several
Counted(n) == IF n < 2 THEN n + 1 ELSE 2

\* --------------------------------------------------------------- ingestion
\* create_order: 400 when a required field is missing, 500 when
\* Decimal(str(totalAmount)) raises; otherwise put_item of a PENDING item
\* under a fresh uuid, then send_message; a fault of either call ends the
\* request with 500 and undoes nothing
create_order(body, putOk, sendOk) ==
    /\ Cardinality(table) < Len(UUIDs)
    /\ LET order_id == UUIDs[Cardinality(table) + 1]
           timestamp == Cardinality(table) + 1
           order_data == [orderId |-> order_id, timestamp |-> timestamp,
                          customerId |-> body.customerId, items |-> body.items,
                          totalAmount |-> body.totalAmount,
                          status |-> Some("PENDING"), errorMessage |-> None]
           message_body == JsonBody(Some(order_id), Some("PROCESS_ORDER"))
           present == \A i \in 1..Len(required_fields) : Has(FieldOf(required_fields[i], body))
       IN  /\ present
           /\ Val(body.totalAmount) # NotNumeric
           /\ putOk
           /\ table' = PutItem(table, order_data)
           /\ queue' = IF sendOk THEN Append(queue, message_body) ELSE queue
    /\ UNCHANGED <<SNS_TOPIC_ARN, retrieved, pipelines, terminals, landed, invocations, pc, event, idx, processed_orders,
                   failed_orders, order, step, calls, writes, wrote, interfered, notes, po, metrics, response>>

\* get_order: 400 for an empty path parameter, 500 when the query faults,
\* 404 when the query returns no item, otherwise 200 with response['Items'][0]
get_order(path_order_id, queryOk) ==
    /\ retrieved' = Some(
          IF path_order_id = "" THEN [statusCode |-> 400, body |-> None]
          ELSE IF ~queryOk THEN [statusCode |-> 500, body |-> None]
          ELSE IF Query(table, path_order_id) = <<>> THEN [statusCode |-> 404, body |-> None]
          ELSE [statusCode |-> 200, body |-> Some(Query(table, path_order_id)[1])])
    /\ UNCHANGED <<shared, pipelines, terminals, landed, invocations, pc, event, idx, processed_orders, failed_orders,
                   order, step, calls, writes, wrote, interfered, notes, po, metrics, response>>

\* ------------------------------------------------------------------ handler
\* the record the for loop of worker w is at
Records(w) == Val(event[w])
Current(w) == Records(w)[idx[w]]
InLoop(w) == pc[w] = "loop" /\ idx[w] <= Len(Records(w))

\* the per-record bookkeeping starts afresh with every record of the loop
NewRecordLogs(w, how) ==
    /\ calls' = [calls EXCEPT ![w] = <<>>]
    /\ writes' = [writes EXCEPT ![w] = <<>>]
    /\ wrote' = [wrote EXCEPT ![w] = FALSE]
    /\ interfered' = [interfered EXCEPT ![w] = FALSE]
    /\ notes' = [notes EXCEPT ![w] = <<>>]
    /\ po' = [po EXCEPT ![w] = how]

\* variant: a failed record ends the loop
RecordFailed_Break(w, x) ==
    /\ failed_orders' = [failed_orders EXCEPT ![w] = Append(@, x)]
    /\ idx' = [idx EXCEPT ![w] = Len(Records(w)) + 1]
    /\ pc' = [pc EXCEPT ![w] = "loop"]
    /\ UNCHANGED processed_orders

\* failed_orders.append(x) and on to the next record
RecordFailed(w, x) ==
    /\ failed_orders' = [failed_orders EXCEPT ![w] = Append(@, x)]
    /\ idx' = [idx EXCEPT ![w] = @ + 1]
    /\ pc' = [pc EXCEPT ![w] = "loop"]
    /\ UNCHANGED processed_orders

\* variant: an order id already listed is not listed again
RecordProcessed_Dedup(w, x) ==
    /\ processed_orders' = [processed_orders EXCEPT ![w] =
                               IF \E i \in 1..Len(@) : @[i] = x THEN @ ELSE Append(@, x)]
    /\ idx' = [idx EXCEPT ![w] = @ + 1]
    /\ pc' = [pc EXCEPT ![w] = "loop"]
    /\ UNCHANGED failed_orders

\* processed_orders.append(x) and on to the next record
RecordProcessed(w, x) ==
    /\ processed_orders' = [processed_orders EXCEPT ![w] = Append(@, x)]
    /\ idx' = [idx EXCEPT ![w] = @ + 1]
    /\ pc' = [pc EXCEPT ![w] = "loop"]
    /\ UNCHANGED failed_orders

\* the value of the outer except: {'statusCode': 500, 'error': str(e)}
ErrorResponse == [statusCode |-> 500, processedOrders |-> None, failedOrders |-> None]

\* variant: the fault of put_metric_data reaches the outer except
Summary_MetricsFault(w, metricsOk) ==
    IF metricsOk
    THEN [statusCode |-> 200,
          processedOrders |-> Some(processed_orders[w]),
          failedOrders |-> Some(failed_orders[w])]
    ELSE ErrorResponse

\* the value the handler returns after send_processing_metrics, which
\* swallows the fault of put_metric_data (metricsOk = FALSE)
Summary(w, metricsOk) ==
    [statusCode |-> 200,
     processedOrders |-> Some(processed_orders[w]),
     failedOrders |-> Some(failed_orders[w])]

\* the queue hands worker w a batch: handler(event, context) starts
Invoke(w, batch, limit) ==
    /\ pc[w] \in {"idle", "returned"}
    /\ invocations < limit
    /\ invocations' = invocations + 1
    /\ event' = [event EXCEPT ![w] = Some(batch)]
    /\ idx' = [idx EXCEPT ![w] = 1]
    /\ processed_orders' = [processed_orders EXCEPT ![w] = <<>>]
    /\ failed_orders' = [failed_orders EXCEPT ![w] = <<>>]
    /\ pc' = [pc EXCEPT ![w] = "loop"]
    /\ order' = [order EXCEPT ![w] = None]
    /\ step' = [step EXCEPT ![w] = 1]
    /\ NewRecordLogs(w, "none")
    /\ metrics' = [metrics EXCEPT ![w] = <<>>]
    /\ response' = [response EXCEPT ![w] = None]
    /\ UNCHANGED <<shared, retrieved, pipelines, terminals, landed>>

\* handler called with an event that has no 'Records' key: the KeyError
\* reaches the outer except
InvokeNoRecords(w, limit) ==
    /\ pc[w] \in {"idle", "returned"}
    /\ invocations < limit
    /\ invocations' = invocations + 1
    /\ event' = [event EXCEPT ![w] = None]
    /\ idx' = [idx EXCEPT ![w] = 1]
    /\ processed_orders' = [processed_orders EXCEPT ![w] = <<>>]
    /\ failed_orders' = [failed_orders EXCEPT ![w] = <<>>]
    /\ pc' = [pc EXCEPT ![w] = "returned"]
    /\ order' = [order EXCEPT ![w] = None]
    /\ step' = [step EXCEPT ![w] = 1]
    /\ NewRecordLogs(w, "none")
    /\ metrics' = [metrics EXCEPT ![w] = <<>>]
    /\ response' = [response EXCEPT ![w] = Some(ErrorResponse)]
    /\ UNCHANGED <<shared, retrieved, pipelines, terminals, landed>>

\* the body does not parse or lacks orderId or action: inner except
DecodeFault(w) ==
    /\ InLoop(w)
    /\ ~Decodes(Current(w))
    /\ RecordFailed(w, MessageIdOf(Current(w)))
    /\ NewRecordLogs(w, "none")
    /\ UNCHANGED <<shared, retrieved, pipelines, terminals, landed, invocations, event, order, step, metrics, response>>

\* action != 'PROCESS_ORDER'
UnknownAction(w) ==
    /\ InLoop(w)
    /\ Decodes(Current(w))
    /\ Val(Val(Current(w).body).action) # "PROCESS_ORDER"
    /\ RecordFailed(w, Val(Val(Current(w).body).orderId))
    /\ NewRecordLogs(w, "none")
    /\ UNCHANGED <<shared, retrieved, pipelines, terminals, landed, invocations, event, order, step, metrics, response>>

\* variant: every decodable record is dispatched, whatever its action
Dispatches_AnyAction(w) ==
    /\ InLoop(w)
    /\ Decodes(Current(w))

\* the record is dispatched to process_order
Dispatches(w) ==
    /\ InLoop(w)
    /\ Decodes(Current(w))
    /\ Val(Val(Current(w).body).action) = "PROCESS_ORDER"

order_id(w) == Val(Val(Current(w).body).orderId)

\* ------------------------------------------------------------ process_order
\* table.query raises: the except clause of process_order evaluates
\* order.get('timestamp', '') while `order` is unbound, and that error leaves
\* process_order; the handler's inner except records the messageId
QueryFault(w) ==
    /\ Dispatches(w)
    /\ order' = [order EXCEPT ![w] = None]
    /\ RecordFailed(w, MessageIdOf(Current(w)))
    /\ NewRecordLogs(w, "raised")
    /\ UNCHANGED <<shared, retrieved, pipelines, terminals, landed, invocations, event, step, metrics, response>>

\* variant: an order that is not found is marked FAILED in the store
NotFound_MarksFailed(w) ==
    /\ Dispatches(w)
    /\ Query(table, order_id(w)) = <<>>
    /\ order' = [order EXCEPT ![w] = None]
    /\ table' = UpdateItem(table, order_id(w), 0, "FAILED", Some("Order not found"))
    /\ RecordFailed(w, order_id(w))
    /\ NewRecordLogs(w, "false")
    /\ UNCHANGED <<queue, SNS_TOPIC_ARN, retrieved, pipelines, terminals, landed,
                   invocations, event, step, metrics, response>>

\* not response['Items']: return False
NotFound(w) ==
    /\ Dispatches(w)
    /\ Query(table, order_id(w)) = <<>>
    /\ order' = [order EXCEPT ![w] = None]
    /\ RecordFailed(w, order_id(w))
    /\ NewRecordLogs(w, "false")
    /\ UNCHANGED <<shared, retrieved, pipelines, terminals, landed, invocations, event, step, metrics, response>>

\* variant: the stored status is not looked at
current_status_Default(o) == "PENDING"

\* order.get('status', 'PENDING')
current_status(o) == IF Has(o.status) THEN Val(o.status) ELSE "PENDING"

\* variant: the gate turns away the terminal statuses only
PassesGate_NotTerminal(o) == current_status(o) \notin {"COMPLETED", "FAILED"}

\* the gate `current_status != 'PENDING'` lets the record through
PassesGate(o) == current_status(o) = "PENDING"

\* current_status != 'PENDING': return True
AlreadyProcessed(w) ==
    /\ Dispatches(w)
    /\ Query(table, order_id(w)) # <<>>
    /\ LET o == Query(table, order_id(w))[1]
       IN  /\ ~PassesGate(o)
           /\ order' = [order EXCEPT ![w] = Some(o)]
    /\ RecordProcessed(w, order_id(w))
    /\ NewRecordLogs(w, "true")
    /\ UNCHANGED <<shared, retrieved, pipelines, terminals, landed, invocations, event, step, metrics, response>>

\* variant: an order another invocation is working on counts as already
\* processed
BeginPipeline_Exclusive(w) ==
    /\ Dispatches(w)
    /\ Query(table, order_id(w)) # <<>>
    /\ LET o == Query(table, order_id(w))[1]
       IN  /\ PassesGate(o)
           /\ order' = [order EXCEPT ![w] = Some(o)]
    /\ IF \E v \in Workers \ {w} :
             /\ pc[v] \in {"update", "exec", "fail_update", "fail_notify",
                            "complete_update", "complete_notify"}
             /\ Val(order[v]).orderId = order_id(w)
       THEN /\ RecordProcessed(w, order_id(w))
            /\ NewRecordLogs(w, "true")
            /\ UNCHANGED <<step, pipelines>>
       ELSE /\ step' = [step EXCEPT ![w] = 1]
            /\ pc' = [pc EXCEPT ![w] = "update"]
            /\ pipelines' = Counted(pipelines)
            /\ NewRecordLogs(w, "running")
            /\ UNCHANGED <<idx, processed_orders, failed_orders>>
    /\ UNCHANGED <<shared, retrieved, terminals, landed, invocations, event, metrics, response>>

\* the gate is passed: the for loop over processing_steps starts
BeginPipeline(w) ==
    /\ Dispatches(w)
    /\ Query(table, order_id(w)) # <<>>
    /\ LET o == Query(table, order_id(w))[1]
       IN  /\ PassesGate(o)
           /\ order' = [order EXCEPT ![w] = Some(o)]
    /\ step' = [step EXCEPT ![w] = 1]
    /\ pc' = [pc EXCEPT ![w] = "update"]
    /\ pipelines' = Counted(pipelines)
    /\ NewRecordLogs(w, "running")
    /\ UNCHANGED <<shared, retrieved, terminals, landed, invocations, event, idx, processed_orders, failed_orders,
                   metrics, response>>

\* update_order_status(order_id, status, timestamp, error_message): the
\* update_item call, and nothing when it raises (ok = FALSE)
update_order_status(w, status, error_message, ok) ==
    /\ table' = IF ok
                THEN UpdateItem(table, order_id(w), Val(order[w]).timestamp, status, error_message)
                ELSE table
    /\ writes' = [writes EXCEPT ![w] = Append(@, status)]
    /\ wrote' = [wrote EXCEPT ![w] = ok]
    /\ landed' = (landed \/ ok)
    /\ interfered' = [v \in Workers |->
                        IF v # w /\ ok /\ Has(order[v]) /\ Val(order[v]).orderId = order_id(w)
                                 /\ Val(order[v]).timestamp = Val(order[w]).timestamp
                        THEN TRUE ELSE interfered[v]]
    /\ UNCHANGED <<queue, SNS_TOPIC_ARN, retrieved, pipelines, terminals>>

\* variant: sns.publish is called whether or not a topic is configured
send_order_notification_NoTopicTest(w, event_type, publishOk) ==
    /\ notes' = [notes EXCEPT ![w] = Append(@, [event |-> event_type,
                                                   published |-> publishOk])]
    /\ terminals' = Counted(terminals)

\* send_order_notification(order_id, event_type, order, error_message):
\* nothing without a topic; otherwise sns.publish, whose fault is swallowed
send_order_notification(w, event_type, publishOk) ==
    /\ notes' = [notes EXCEPT ![w] = Append(@, [event |-> event_type,
                                                   published |-> SNS_TOPIC_ARN /\ publishOk])]
    /\ terminals' = Counted(terminals)

\* variant: the fault of update_item leaves update_order_status and ends
\* process_order with False
UpdateStep_AbortOnFault(w, ok) ==
    /\ pc[w] = "update"
    /\ update_order_status(w, processing_steps[step[w]].status, None, ok)
    /\ IF ok
       THEN /\ pc' = [pc EXCEPT ![w] = "exec"]
            /\ UNCHANGED <<idx, processed_orders, failed_orders, po>>
       ELSE /\ po' = [po EXCEPT ![w] = "false"]
            /\ RecordFailed(w, order_id(w))
    /\ UNCHANGED <<invocations, event, order, step, calls, notes, metrics, response>>

\* update_order_status(order_id, status, order['timestamp']) of the loop body
UpdateStep(w, ok) ==
    /\ pc[w] = "update"
    /\ update_order_status(w, processing_steps[step[w]].status, None, ok)
    /\ pc' = [pc EXCEPT ![w] = "exec"]
    /\ UNCHANGED <<invocations, event, idx, processed_orders, failed_orders, order, step,
                   calls, notes, po, metrics, response>>

\* the draws open to the executor worker w is about to call
DrawsFor(w) == IF Has(order[w]) THEN Draws(Val(order[w])) ELSE {}

\* variant: after a failed executor the notification is sent straight away
AfterStep_NotifyFirst(k, success) ==
    IF ~success THEN "fail_notify"
    ELSE IF k < Len(processing_steps) THEN "update"
    ELSE "complete_update"

\* variant: a failed executor never hands control back to the loop
AfterStep_Stall(k, success) ==
    IF ~success THEN "stalled"
    ELSE IF k < Len(processing_steps) THEN "update"
    ELSE "complete_update"

\* variant: the result of the executor is not looked at
AfterStep_IgnoreFailure(k, success) ==
    IF k < Len(processing_steps) THEN "update" ELSE "complete_update"

\* where the loop over processing_steps goes after step k returned success:
\* `if not success` leaves it for the failure branch, otherwise the next
\* step, and after the last step the completion
AfterStep(k, success) ==
    IF ~success THEN "fail_update"
    ELSE IF k < Len(processing_steps) THEN "update"
    ELSE "complete_update"

\* success = processing_function(order), for one outcome of its random draws
ExecStep(w) ==
    /\ pc[w] = "exec"
    /\ \E draw \in DrawsFor(w) :
       LET success == RunStep(step[w], Val(order[w]), draw)
       IN  /\ calls' = [calls EXCEPT ![w] = Append(@, [fn |-> processing_steps[step[w]].fn,
                                                          ok |-> success])]
           /\ pc' = [pc EXCEPT ![w] = AfterStep(step[w], success)]
           /\ step' = [step EXCEPT ![w] = IF AfterStep(@, success) = "update" THEN @ + 1 ELSE @]
    /\ UNCHANGED <<shared, retrieved, pipelines, terminals, landed, invocations, event, idx, processed_orders, failed_orders, order,
                   writes, wrote, interfered, notes, po, metrics, response>>

\* update_order_status(order_id, 'FAILED', order['timestamp'], f"Failed at {status}")
FailUpdate(w, ok) ==
    /\ pc[w] = "fail_update"
    /\ update_order_status(w, "FAILED", Some(FailedAt(processing_steps[step[w]].status)), ok)
    /\ pc' = [pc EXCEPT ![w] = "fail_notify"]
    /\ UNCHANGED <<invocations, event, idx, processed_orders, failed_orders, order, step,
                   calls, notes, po, metrics, response>>

\* send_order_notification(order_id, 'FAILED', ...); return False
FailNotify(w, publishOk) ==
    /\ pc[w] = "fail_notify"
    /\ send_order_notification(w, "FAILED", publishOk)
    /\ po' = [po EXCEPT ![w] = "false"]
    /\ RecordFailed(w, order_id(w))
    /\ UNCHANGED <<shared, retrieved, pipelines, landed, invocations, event, order, step, calls, writes, wrote, interfered, metrics, response>>

\* update_order_status(order_id, 'COMPLETED', order['timestamp'])
CompleteUpdate(w, ok) ==
    /\ pc[w] = "complete_update"
    /\ update_order_status(w, "COMPLETED", None, ok)
    /\ pc' = [pc EXCEPT ![w] = "complete_notify"]
    /\ UNCHANGED <<invocations, event, idx, processed_orders, failed_orders, order, step,
                   calls, notes, po, metrics, response>>

\* send_order_notification(order_id, 'COMPLETED', order); return True
CompleteNotify(w, publishOk) ==
    /\ pc[w] = "complete_notify"
    /\ send_order_notification(w, "COMPLETED", publishOk)
    /\ po' = [po EXCEPT ![w] = "true"]
    /\ RecordProcessed(w, order_id(w))
    /\ UNCHANGED <<shared, retrieved, pipelines, landed, invocations, event, order, step, calls, writes, wrote, interfered, metrics, response>>

\* after the loop: send_processing_metrics(len(processed_orders),
\* len(failed_orders)), whose fault is swallowed, then the summary
Finish(w, metricsOk) ==
    /\ pc[w] = "loop"
    /\ idx[w] > Len(Records(w))
    /\ metrics' = [metrics EXCEPT ![w] = Append(@, [success |-> Len(processed_orders[w]),
                                                      failed |-> Len(failed_orders[w]),
                                                      ok |-> metricsOk])]
    /\ response' = [response EXCEPT ![w] = Some(Summary(w, metricsOk))]
    /\ pc' = [pc EXCEPT ![w] = "returned"]
    /\ UNCHANGED <<shared, retrieved, pipelines, terminals, landed, invocations, event, idx, processed_orders, failed_orders, order,
                   step, calls, writes, wrote, interfered, notes, po>>

\* one step of the processing function instance w, fed at most limit
\* batches from bs
Consumer(w, bs, limit) ==
    \/ \E batch \in bs : Invoke(w, batch, limit)
    \/ InvokeNoRecords(w, limit)
    \/ DecodeFault(w)
    \/ UnknownAction(w)
    \/ QueryFault(w)
    \/ NotFound(w)
    \/ AlreadyProcessed(w)
    \/ BeginPipeline(w)
    \/ \E ok \in BOOLEAN : UpdateStep(w, ok)
    \/ ExecStep(w)
    \/ \E ok \in BOOLEAN : FailUpdate(w, ok)
    \/ \E publishOk \in BOOLEAN : FailNotify(w, publishOk)
    \/ \E ok \in BOOLEAN : CompleteUpdate(w, ok)
    \/ \E publishOk \in BOOLEAN : CompleteNotify(w, publishOk)
    \/ \E metricsOk \in BOOLEAN : Finish(w, metricsOk)

Ingestion ==
    \E body \in Requests, putOk \in BOOLEAN, sendOk \in BOOLEAN : create_order(body, putOk, sendOk)

\* one instance of the processing function consumes the queue: invocations
\* follow one another
Next ==
    \/ Ingestion
    \/ Consumer("w1", Batches, MaxInvocations)

Spec == Init /\ [][Next]_vars

\* the next statement of the handler invocation of worker w
Proceeds(w) ==
    \/ DecodeFault(w)
    \/ UnknownAction(w)
    \/ QueryFault(w)
    \/ NotFound(w)
    \/ AlreadyProcessed(w)
    \/ BeginPipeline(w)
    \/ \E ok \in BOOLEAN : UpdateStep(w, ok)
    \/ ExecStep(w)
    \/ \E ok \in BOOLEAN : FailUpdate(w, ok)
    \/ \E publishOk \in BOOLEAN : FailNotify(w, publishOk)
    \/ \E ok \in BOOLEAN : CompleteUpdate(w, ok)
    \/ \E publishOk \in BOOLEAN : CompleteNotify(w, publishOk)
    \/ \E metricsOk \in BOOLEAN : Finish(w, metricsOk)

\* one handler invocation on one batch, with orders created around it
NextOneBatch ==
    \/ Ingestion
    \/ Consumer("w1", Batches, 1)

\* a handler invocation that has started keeps running: every call it makes
\* returns or raises (executors sleep for a bounded time, the SDK calls time
\* out), so its next statement is eventually executed
SpecFair == Init /\ [][NextOneBatch]_vars /\ WF_vars(Proceeds("w1"))

\* the queue hands worker w a message again once the invocation before has
\* ended: handler(event, context) starts afresh, as in Invoke, any number of
\* times
Redeliver(w, batch) ==
    /\ pc[w] = "returned"
    /\ event' = [event EXCEPT ![w] = Some(batch)]
    /\ idx' = [idx EXCEPT ![w] = 1]
    /\ processed_orders' = [processed_orders EXCEPT ![w] = <<>>]
    /\ failed_orders' = [failed_orders EXCEPT ![w] = <<>>]
    /\ pc' = [pc EXCEPT ![w] = "loop"]
    /\ order' = [order EXCEPT ![w] = None]
    /\ step' = [step EXCEPT ![w] = 1]
    /\ NewRecordLogs(w, "none")
    /\ metrics' = [metrics EXCEPT ![w] = <<>>]
    /\ response' = [response EXCEPT ![w] = None]
    /\ UNCHANGED <<shared, retrieved, pipelines, terminals, landed, invocations>>

\* the function's timeout ends the invocation of worker w in the middle of
\* the pipeline: nothing more of it runs and it returns no response
TimedOut(w) ==
    /\ pc[w] \in {"update", "exec", "fail_update", "fail_notify",
                  "complete_update", "complete_notify"}
    /\ pc' = [pc EXCEPT ![w] = "returned"]
    /\ UNCHANGED <<shared, retrieved, pipelines, terminals, landed, invocations, event, idx,
                   processed_orders, failed_orders, order, step, calls, writes, wrote,
                   interfered, notes, po, metrics, response>>

\* the delivery of the PROCESS_ORDER message of the first order
ProcessOrderDelivery ==
    <<SQSRecord(Some("m-" \o UUIDs[1]), Some(JsonBody(Some(UUIDs[1]), Some("PROCESS_ORDER"))))>>

\* one instance consumes the queue, invocations may time out, and messages
\* are delivered again without end
NextRedelivery ==
    \/ Ingestion
    \/ Consumer("w1", Redeliveries, 1)
    \/ TimedOut("w1")
    \/ \E batch \in Redeliveries : Redeliver("w1", batch)

\* a started invocation keeps running until it returns or times out, and the
\* message of the first order is delivered again and again
SpecRedelivery ==
    /\ Init
    /\ [][NextRedelivery]_vars
    /\ WF_vars(Proceeds("w1"))
    /\ SF_vars(Redeliver("w1", ProcessOrderDelivery))

\* two instances consume the queue and the same message may be delivered to
\* both: invocations overlap
NextOverlap ==
    \/ Ingestion
    \/ \E w \in Workers : Consumer(w, Redeliveries, MaxDeliveries)

SpecOverlap == Init /\ [][NextOverlap]_vars

\* the processor and the GET requests meet a table that already holds items
InitHistory ==
    /\ table \in HistoryTables
    /\ queue = <<>>
    /\ SNS_TOPIC_ARN \in BOOLEAN
    /\ retrieved = None
    /\ pipelines = 0
    /\ terminals = 0
    /\ landed = FALSE
    /\ invocations = 0
    /\ pc = [w \in Workers |-> "idle"]
    /\ event = [w \in Workers |-> None]
    /\ idx = [w \in Workers |-> 1]
    /\ processed_orders = [w \in Workers |-> <<>>]
    /\ failed_orders = [w \in Workers |-> <<>>]
    /\ order = [w \in Workers |-> None]
    /\ step = [w \in Workers |-> 1]
    /\ calls = [w \in Workers |-> <<>>]
    /\ writes = [w \in Workers |-> <<>>]
    /\ wrote = [w \in Workers |-> FALSE]
    /\ interfered = [w \in Workers |-> FALSE]
    /\ notes = [w \in Workers |-> <<>>]
    /\ po = [w \in Workers |-> "none"]
    /\ metrics = [w \in Workers |-> <<>>]
    /\ response = [w \in Workers |-> None]

Retrieval ==
    \E path_order_id \in PathOrderIds, queryOk \in BOOLEAN : get_order(path_order_id, queryOk)

NextHistory ==
    \/ Retrieval
    \/ Consumer("w1", Deliveries, MaxInvocations)

SpecHistory == InitHistory /\ [][NextHistory]_vars

\* ======================================================================
\* Properties
\* ======================================================================
StepStatus(k) ==
    CASE k = 1 -> "VALIDATING"
      [] k = 2 -> "INVENTORY_CHECK"
      [] k = 3 -> "PAYMENT_PROCESSING"
      [] k = 4 -> "FULFILLMENT"

StepFn(k) ==
    CASE k = 1 -> "validate_order"
      [] k = 2 -> "check_inventory"
      [] k = 3 -> "process_payment"
      [] k = 4 -> "fulfill_order"

\* worker w takes the step
Took(w) == idx'[w] # idx[w] \/ pc'[w] # pc[w]

\* the item in the table that worker w loaded into `order`
Persisted(w) ==
    CHOOSE r \in table : /\ r.orderId = Val(order[w]).orderId
                         /\ r.timestamp = Val(order[w]).timestamp

\* the invocation of worker w was handed one PROCESS_ORDER message, has
\* returned, and process_order ran the pipeline for it
SingleRun(w) ==
    /\ pc[w] = "returned"
    /\ Has(event[w])
    /\ Len(Records(w)) = 1
    /\ Has(order[w])
    /\ calls[w] # <<>>

\* C1: when the record process_order loads has a status other than PENDING,
\* process_order returns True (the order id goes to processed_orders), no
\* step executor is called, no update_order_status call is made (the table
\* is unchanged) and no notification is sent.
C1_GateSkipsNonPending ==
    [][\A w \in Workers :
          (/\ Dispatches(w)
           /\ Took(w)
           /\ Has(order'[w])
           /\ current_status(Val(order'[w])) # "PENDING")
          => /\ po'[w] = "true"
             /\ processed_orders'[w] = Append(processed_orders[w], order_id(w))
             /\ failed_orders'[w] = failed_orders[w]
             /\ pc'[w] = "loop"
             /\ table' = table
             /\ calls'[w] = <<>>
             /\ writes'[w] = <<>>
             /\ notes'[w] = <<>>]_vars

\* a redelivered message met a record that had left PENDING and was skipped
C1_Witness ==
    \E w \in Workers :
        /\ po[w] = "true"
        /\ calls[w] = <<>>
        /\ Has(order[w])
        /\ current_status(Val(order[w])) \in
              {"VALIDATING", "INVENTORY_CHECK", "PAYMENT_PROCESSING", "FULFILLMENT",
               "COMPLETED", "FAILED"}

\* C2: once the status of a record is COMPLETED or FAILED no step changes
\* it, also while two invocations for the same order are in flight.
C2_TerminalStatusImmutable ==
    [][\A r \in table :
          (Has(r.status) /\ Val(r.status) \in {"COMPLETED", "FAILED"})
          => \E q \in table' : /\ q.orderId = r.orderId
                               /\ q.timestamp = r.timestamp
                               /\ q.status = r.status]_vars

\* C3: the executors called within one process_order invocation are a
\* prefix of validate_order, check_inventory, process_payment,
\* fulfill_order, each once, and only the last call made can have failed.
C3_ExecutorsInOrder ==
    \A w \in Workers :
        /\ Len(calls[w]) <= 4
        /\ \A i \in 1..Len(calls[w]) :
              /\ calls[w][i].fn = StepFn(i)
              /\ (i < Len(calls[w]) => calls[w][i].ok)

\* check_inventory failed and process_order returned with two calls made
C3_Witness ==
    \E w \in Workers :
        /\ po[w] = "false"
        /\ Len(calls[w]) = 2
        /\ ~calls[w][2].ok

\* C4 as worded: at the moment executor k starts the persisted status is
\* the name of step k.
C4_StatusIsStepAtExecutorStart ==
    \A w \in Workers :
        pc[w] = "exec" => Persisted(w).status = Some(StepStatus(step[w]))

\* C4 amended: when executor k starts, update_order_status has been called
\* with the name of step k as the k-th store call of the invocation and has
\* returned, after executors 1..k-1; the persisted status is that name at
\* this moment whenever that update took effect and no other invocation has
\* written the record since this one loaded it.
C4_StepWriteBeforeExecutor ==
    \A w \in Workers :
        pc[w] = "exec"
        => /\ Len(writes[w]) = step[w]
           /\ writes[w][step[w]] = StepStatus(step[w])
           /\ Len(calls[w]) = step[w] - 1
           /\ (wrote[w] /\ ~interfered[w]
                 => Persisted(w).status = Some(StepStatus(step[w])))

\* process_payment is about to run on a record that shows PAYMENT_PROCESSING
C4_Witness ==
    \E w \in Workers :
        /\ pc[w] = "exec"
        /\ step[w] = 3
        /\ wrote[w]
        /\ ~interfered[w]
        /\ Persisted(w).status = Some("PAYMENT_PROCESSING")

\* what C5 says of the sinks and of the handler when executor k failed
C5_Reports(w) ==
    LET oid == Val(order[w]).orderId
    IN  /\ Len(notes[w]) = 1
        /\ notes[w][1].event = "FAILED"
        /\ po[w] = "false"
        /\ Val(response[w]).statusCode = 200
        /\ Val(response[w]).failedOrders = Some(<<oid>>)
        /\ Val(response[w]).processedOrders = Some(<<>>)
        /\ Len(metrics[w]) = 1
        /\ metrics[w][1].success = 0
        /\ metrics[w][1].failed = 1

\* what C5 says of the record when executor k failed
C5_Record(w) ==
    /\ Persisted(w).status = Some("FAILED")
    /\ Persisted(w).errorMessage = Some("Failed at " \o StepStatus(Len(calls[w])))

FailedRun(w) == SingleRun(w) /\ ~calls[w][Len(calls[w])].ok

\* C5 as worded: when executor k fails, the final record is FAILED with
\* errorMessage "Failed at <step k>", one failure notification and no
\* completion notification is sent, process_order returns False, the order
\* id is in failedOrders and the metrics of the single-message batch are
\* success 0, failed 1.
C5_StepFailureOutcome ==
    \A w \in Workers : FailedRun(w) => C5_Record(w) /\ C5_Reports(w)

\* C5 amended: the record is FAILED with that errorMessage whenever the
\* FAILED update took effect and no other invocation has written the record
\* since this one loaded it; the notification, the return value, failedOrders
\* and the metrics are as worded in every case.
C5_StepFailureOutcomeAmended ==
    \A w \in Workers :
        FailedRun(w) => /\ C5_Reports(w)
                        /\ (wrote[w] /\ ~interfered[w] => C5_Record(w))

\* process_payment failed, the FAILED update took effect
C5_Witness ==
    \E w \in Workers :
        /\ FailedRun(w)
        /\ Len(calls[w]) = 3
        /\ wrote[w]
        /\ ~interfered[w]
        /\ Persisted(w).errorMessage = Some("Failed at PAYMENT_PROCESSING")

CompletedRun(w) ==
    /\ SingleRun(w)
    /\ Len(calls[w]) = 4
    /\ \A i \in 1..4 : calls[w][i].ok

\* what C6 says of the sinks and of the handler when all executors succeed
C6_Reports(w) ==
    LET oid == Val(order[w]).orderId
    IN  /\ Len(notes[w]) = 1
        /\ notes[w][1].event = "COMPLETED"
        /\ po[w] = "true"
        /\ Val(response[w]).statusCode = 200
        /\ Val(response[w]).processedOrders = Some(<<oid>>)
        /\ Val(response[w]).failedOrders = Some(<<>>)
        /\ Len(metrics[w]) = 1
        /\ metrics[w][1].success = 1
        /\ metrics[w][1].failed = 0

\* what C6 says of the record when all executors succeed
C6_Record(w) ==
    /\ Persisted(w).status = Some("COMPLETED")
    /\ Persisted(w).errorMessage = None

\* C6 as worded: when the four executors succeed on a PENDING record,
\* process_order returns True, the final record is COMPLETED without
\* errorMessage, one completion notification and no failure notification is
\* sent, the order id is in processedOrders and the metrics of the
\* single-message batch are success 1, failed 0.
C6_CompletionOutcome ==
    \A w \in Workers : CompletedRun(w) => C6_Record(w) /\ C6_Reports(w)

\* C6 amended: the record is COMPLETED without errorMessage whenever the
\* COMPLETED update took effect and no other invocation has written the
\* record since this one loaded it; the notification, the return value,
\* processedOrders and the metrics are as worded in every case.
C6_CompletionOutcomeAmended ==
    \A w \in Workers :
        CompletedRun(w) => /\ C6_Reports(w)
                           /\ (wrote[w] /\ ~interfered[w] => C6_Record(w))

\* all four executors succeeded and the COMPLETED update took effect
C6_Witness ==
    \E w \in Workers :
        /\ CompletedRun(w)
        /\ wrote[w]
        /\ ~interfered[w]
        /\ Persisted(w).status = Some("COMPLETED")

\* the record at the loop position has a decode fault, an action other than
\* PROCESS_ORDER, or its dispatch to process_order ends in an exception
FaultyRecord(w) ==
    /\ InLoop(w)
    /\ \/ ~Decodes(Current(w))
       \/ Val(Val(Current(w).body).action) # "PROCESS_ORDER"
       \/ po'[w] = "raised"

\* C7: handling a record with a decode fault, a dispatch fault or an
\* invalid action appends exactly one entry to failed_orders and touches
\* nothing a later record's outcome depends on (processed_orders, the table,
\* the queue), the loop goes on with the next record, and at the return
\* every record of the batch has got its entry.
C7_BatchIsolation ==
    [][\A w \in Workers :
          /\ (FaultyRecord(w) /\ Took(w))
             => /\ Len(failed_orders'[w]) = Len(failed_orders[w]) + 1
                /\ SubSeq(failed_orders'[w], 1, Len(failed_orders[w])) = failed_orders[w]
                /\ processed_orders'[w] = processed_orders[w]
                /\ table' = table
                /\ queue' = queue
                /\ calls'[w] = <<>>
                /\ notes'[w] = <<>>
                /\ pc'[w] = "loop"
                /\ idx'[w] = idx[w] + 1
          /\ (pc'[w] = "returned" /\ Has(event'[w]))
             => Len(processed_orders'[w]) + Len(failed_orders'[w]) = Len(Val(event'[w]))]_vars

\* an undecodable first record, and the second record of the batch was
\* processed all the same
C7_Witness ==
    \E w \in Workers :
        /\ pc[w] = "returned"
        /\ Has(event[w])
        /\ Len(Records(w)) = 2
        /\ ~Decodes(Records(w)[1])
        /\ po[w] = "true"
        /\ Len(calls[w]) = 4
        /\ Len(processed_orders[w]) = 1
        /\ Len(failed_orders[w]) = 1

\* C8: process_order never lets an exception out, whatever faults, the
\* store read included.
C8_ProcessOrderNeverRaises ==
    \A w \in Workers : po[w] # "raised"

\* the order id can be read from the body of the record
Extractable(record) ==
    /\ Has(record.body)
    /\ Val(record.body).json
    /\ Has(Val(record.body).orderId)

\* C9: whenever the order id of a failed message could be extracted, the
\* entry appended to failed_orders is that order id.
C9_FailedKeyedByOrderId ==
    [][\A w \in Workers :
          (/\ Has(event[w])
           /\ idx[w] <= Len(Records(w))
           /\ Len(failed_orders'[w]) = Len(failed_orders[w]) + 1
           /\ Extractable(Current(w)))
          => failed_orders'[w][Len(failed_orders'[w])] = Val(Val(Current(w).body).orderId)]_vars

\* C10: a returned handler has a response; with a Records list it is the
\* 200 summary whose two lists together hold one entry per record of the
\* batch, without one it is the 500 response.
C10_HandlerAlwaysReturnsSummary ==
    \A w \in Workers :
        pc[w] = "returned"
        => /\ Has(response[w])
           /\ Has(event[w])
              => /\ Val(response[w]).statusCode = 200
                 /\ Has(Val(response[w]).processedOrders)
                 /\ Has(Val(response[w]).failedOrders)
                 /\ Len(Val(Val(response[w]).processedOrders))
                      + Len(Val(Val(response[w]).failedOrders)) = Len(Records(w))
           /\ ~Has(event[w]) => Val(response[w]).statusCode = 500

\* a batch of two records that both failed, and put_metric_data faulted
C10_Witness ==
    \E w \in Workers :
        /\ pc[w] = "returned"
        /\ Has(event[w])
        /\ Len(Records(w)) = 2
        /\ Len(failed_orders[w]) = 2
        /\ ~metrics[w][1].ok
        /\ Val(response[w]).statusCode = 200

\* C11: handling a decodable record whose action is a value other than
\* PROCESS_ORDER appends its order id to failed_orders and does not call
\* process_order: no store read (the local `order` stays as it was), no
\* update, no executor call and no notification.
C11_UnknownActionNotDispatched ==
    [][\A w \in Workers :
          (/\ InLoop(w)
           /\ Decodes(Current(w))
           /\ Val(Val(Current(w).body).action) # "PROCESS_ORDER"
           /\ Took(w))
          => /\ failed_orders'[w] = Append(failed_orders[w], Val(Val(Current(w).body).orderId))
             /\ processed_orders'[w] = processed_orders[w]
             /\ pc'[w] = "loop"
             /\ idx'[w] = idx[w] + 1
             /\ po'[w] = "none"
             /\ order'[w] = order[w]
             /\ table' = table
             /\ calls'[w] = <<>>
             /\ writes'[w] = <<>>
             /\ notes'[w] = <<>>]_vars

\* a CANCEL_ORDER message for an order that exists and is still PENDING was
\* recorded as a failure under its order id
C11_Witness ==
    \E w \in Workers :
        /\ pc[w] = "returned"
        /\ Has(event[w])
        /\ Len(Records(w)) = 1
        /\ Decodes(Records(w)[1])
        /\ Val(Val(Records(w)[1].body).action) = "CANCEL_ORDER"
        /\ failed_orders[w] = <<UUIDs[1]>>
        /\ po[w] = "none"
        /\ \E r \in table : r.orderId = UUIDs[1] /\ r.status = Some("PENDING")

\* C12: send_processing_metrics is called once per invocation that has a
\* Records list, after the last record and before the handler returns, with
\* the lengths of processed_orders and failed_orders; whether or not
\* put_metric_data faults, both lists stay as they are and the handler
\* returns the 200 summary made of them.
C12_OneMetricsReportPerBatch ==
    [][\A w \in Workers :
          /\ Len(metrics'[w]) > Len(metrics[w])
             => /\ pc[w] = "loop"
                /\ idx[w] > Len(Records(w))
                /\ response[w] = None
                /\ Len(metrics'[w]) = 1
                /\ metrics'[w][1].success = Len(processed_orders[w])
                /\ metrics'[w][1].failed = Len(failed_orders[w])
                /\ processed_orders'[w] = processed_orders[w]
                /\ failed_orders'[w] = failed_orders[w]
                /\ response'[w] = Some([statusCode |-> 200,
                                        processedOrders |-> Some(processed_orders[w]),
                                        failedOrders |-> Some(failed_orders[w])])
          /\ (pc'[w] = "returned" /\ Has(event'[w])) => Len(metrics'[w]) = 1
          /\ pc'[w] # "returned" => metrics'[w] = <<>>]_vars

\* a batch with one processed and one failed record, put_metric_data
\* faulted and the summary was returned all the same
C12_Witness ==
    \E w \in Workers :
        /\ pc[w] = "returned"
        /\ Has(event[w])
        /\ Len(Records(w)) = 2
        /\ Len(metrics[w]) = 1
        /\ metrics[w][1].success = 1
        /\ metrics[w][1].failed = 1
        /\ ~metrics[w][1].ok
        /\ Val(response[w]).statusCode = 200
        /\ Len(Val(Val(response[w]).processedOrders)) = 1
        /\ Len(Val(Val(response[w]).failedOrders)) = 1

\* C13: the step that sends the notification ends process_order with the
\* value its position fixes (False after a failed executor, True after the
\* last one), leaves the table as it is and raises nothing, whatever the
\* topic configuration and the outcome of sns.publish; without a topic
\* nothing is published.
C13_NotificationIsolation ==
    [][\A w \in Workers :
          (pc[w] \in {"fail_notify", "complete_notify"} /\ Took(w))
          => /\ po'[w] = (IF pc[w] = "complete_notify" THEN "true" ELSE "false")
             /\ table' = table
             /\ pc'[w] = "loop"
             /\ idx'[w] = idx[w] + 1
             /\ processed_orders'[w] = (IF pc[w] = "complete_notify"
                                        THEN Append(processed_orders[w], order_id(w))
                                        ELSE processed_orders[w])
             /\ failed_orders'[w] = (IF pc[w] = "fail_notify"
                                     THEN Append(failed_orders[w], order_id(w))
                                     ELSE failed_orders[w])
             /\ Len(notes'[w]) = Len(notes[w]) + 1
             /\ (~SNS_TOPIC_ARN => ~notes'[w][Len(notes'[w])].published)]_vars

\* a topic is configured, sns.publish faulted, and the order is COMPLETED
\* and reported as processed
C13_Witness ==
    \E w \in Workers :
        /\ SNS_TOPIC_ARN
        /\ CompletedRun(w)
        /\ po[w] = "true"
        /\ Len(notes[w]) = 1
        /\ ~notes[w][1].published
        /\ Persisted(w).status = Some("COMPLETED")
        /\ processed_orders[w] = <<Val(order[w]).orderId>>

\* C14: a call of update_order_status inside process_order goes on to the
\* same next position whether update_item took effect or faulted (the step's
\* executor, the failure notification, the completion notification), and
\* changes neither the executor calls made, the notifications sent nor the
\* outcome; a faulted update leaves the table as it is.
C14_FailedUpdateDoesNotAbort ==
    [][\A w \in Workers :
          Len(writes'[w]) > Len(writes[w])
          => /\ pc'[w] = (CASE pc[w] = "update" -> "exec"
                            [] pc[w] = "fail_update" -> "fail_notify"
                            [] pc[w] = "complete_update" -> "complete_notify"
                            [] OTHER -> "none")
             /\ calls'[w] = calls[w]
             /\ notes'[w] = notes[w]
             /\ po'[w] = po[w]
             /\ step'[w] = step[w]
             /\ idx'[w] = idx[w]
             /\ processed_orders'[w] = processed_orders[w]
             /\ failed_orders'[w] = failed_orders[w]
             /\ (~wrote'[w] => table' = table)]_vars

\* the COMPLETED update faulted: the four executors ran, the completion
\* notification was sent and process_order returned True
C14_Witness ==
    \E w \in Workers :
        /\ CompletedRun(w)
        /\ ~wrote[w]
        /\ Persisted(w).status # Some("COMPLETED")
        /\ Len(notes[w]) = 1
        /\ notes[w][1].event = "COMPLETED"
        /\ po[w] = "true"

\* the item of order oid with the greatest timestamp
MostRecent(tbl, oid) ==
    CHOOSE r \in ItemsOf(tbl, oid) : \A q \in ItemsOf(tbl, oid) : q.timestamp <= r.timestamp

\* C15: the record process_order loads, passes through the gate and keys
\* its updates with, and the record get_order returns, is the one with the
\* greatest timestamp among the items of the order id.
C15_ReadSelectsMostRecent ==
    /\ \A w \in Workers :
          Has(order[w])
          => Val(order[w]).timestamp = MostRecent(table, Val(order[w]).orderId).timestamp
    /\ (Has(retrieved) /\ Has(Val(retrieved).body))
          => Val(Val(retrieved).body).timestamp
               = MostRecent(table, Val(Val(retrieved).body).orderId).timestamp

\* C16: an update_order_status call whose update_item took effect changes,
\* in the item keyed by (order id, timestamp of the loaded record), the
\* status and, when it carries an error message (the FAILED update), the
\* errorMessage; customerId, items, totalAmount and the key of that item
\* stay, an errorMessage it has stays when the call carries none, and every
\* other item of the table stays as it is.
C16_UpdateChangesOnlyStatusAndError ==
    [][\A w \in Workers :
          (Len(writes'[w]) > Len(writes[w]) /\ wrote'[w])
          => LET keyed(r) == /\ r.orderId = order_id(w)
                             /\ r.timestamp = Val(order[w]).timestamp
                 status == writes'[w][Len(writes'[w])]
             IN  /\ \A r \in table : ~keyed(r) => r \in table'
                 /\ \A q \in table' : ~keyed(q) => q \in table
                 /\ Cardinality(table') = Cardinality(table)
                 /\ \A r \in table :
                       keyed(r)
                       => \E q \in table' :
                             /\ q = [r EXCEPT !.status = Some(status),
                                              !.errorMessage = q.errorMessage]
                             /\ status # "FAILED" => q.errorMessage = r.errorMessage
                             /\ status = "FAILED"
                                  => q.errorMessage = Some("Failed at " \o StepStatus(step[w]))]_vars

\* an update without error message took effect on an item that had an
\* errorMessage: the status is a step name, the errorMessage and the order
\* data are still there
C16_Witness ==
    \E w \in Workers :
        /\ writes[w] # <<>>
        /\ wrote[w]
        /\ writes[w][Len(writes[w])] \in {"VALIDATING", "INVENTORY_CHECK"}
        /\ Persisted(w).status = Some(writes[w][Len(writes[w])])
        /\ Has(Persisted(w).errorMessage)
        /\ Persisted(w).customerId = Some("c1")
        /\ Persisted(w).totalAmount = Some(10)

\* C17: the status of every item of the table is one of the seven statuses,
\* and every status update_order_status is called with is a step name,
\* COMPLETED or FAILED.
C17_StatusInStatusSet ==
    /\ \A r \in table :
          /\ Has(r.status)
          /\ Val(r.status) \in {"PENDING", "VALIDATING", "INVENTORY_CHECK",
                                "PAYMENT_PROCESSING", "FULFILLMENT", "COMPLETED", "FAILED"}
    /\ \A w \in Workers : \A i \in 1..Len(writes[w]) :
          writes[w][i] \in {"VALIDATING", "INVENTORY_CHECK", "PAYMENT_PROCESSING",
                            "FULFILLMENT", "COMPLETED", "FAILED"}

\* the processor has written FULFILLMENT to an item ingestion created
C17_Witness ==
    \E w \in Workers :
        /\ Len(writes[w]) = 4
        /\ wrote[w]
        /\ \E r \in table : r.status = Some("FULFILLMENT")

\* the status changes C18 allows
ChainSteps ==
    { <<"PENDING", "VALIDATING">>, <<"VALIDATING", "INVENTORY_CHECK">>,
      <<"INVENTORY_CHECK", "PAYMENT_PROCESSING">>, <<"PAYMENT_PROCESSING", "FULFILLMENT">>,
      <<"FULFILLMENT", "COMPLETED">> }
    \cup
    { <<s, "FAILED">> : s \in {"VALIDATING", "INVENTORY_CHECK", "PAYMENT_PROCESSING",
                                "FULFILLMENT"} }

\* C18: every change of the status of an item is a step of the chain
\* PENDING, VALIDATING, INVENTORY_CHECK, PAYMENT_PROCESSING, FULFILLMENT,
\* COMPLETED, or leads from one of the four step names to FAILED, also when
\* two invocations for the same order are in flight.
C18_StatusFollowsChain ==
    [][\A r \in table : \A q \in table' :
          (q.orderId = r.orderId /\ q.timestamp = r.timestamp /\ q.status # r.status)
          => <<Val(r.status), Val(q.status)>> \in ChainSteps]_vars

\* C19: an item whose status is INVENTORY_CHECK, PAYMENT_PROCESSING,
\* FULFILLMENT or COMPLETED has a totalAmount greater than 0 and a non-empty
\* list of items.
C19_PastValidatingIsValid ==
    \A r \in table :
        (Has(r.status) /\ Val(r.status) \in {"INVENTORY_CHECK", "PAYMENT_PROCESSING",
                                             "FULFILLMENT", "COMPLETED"})
        => /\ Has(r.totalAmount)
           /\ Val(r.totalAmount) > 0
           /\ Has(r.items)
           /\ Val(r.items).list
           /\ Len(Val(r.items).elems) > 0

\* validate_order has let an order through and its item shows
\* INVENTORY_CHECK
C19_Witness ==
    \E w \in Workers :
        /\ Len(calls[w]) >= 1
        /\ calls[w][1].ok
        /\ \E r \in table : /\ r.status = Some("INVENTORY_CHECK")
                            /\ Val(r.totalAmount) > 0
                            /\ Len(Val(r.items).elems) > 0

\* an order with a non-empty customerId, at least one item and a positive
\* totalAmount
WellFormed(o) ==
    /\ Has(o.customerId)
    /\ Val(o.customerId) # ""
    /\ Has(o.items)
    /\ Val(o.items).list
    /\ Len(Val(o.items).elems) >= 1
    /\ Has(o.totalAmount)
    /\ Val(o.totalAmount) # NotNumeric
    /\ Val(o.totalAmount) > 0

\* C20: the value validate_order returns for the loaded order is True when
\* the order has a non-empty customerId, at least one item and a positive
\* totalAmount, and False in every other case (a field missing or empty,
\* items not a list or empty, totalAmount 0 or negative).
C20_ValidateOrderDecides ==
    \A w \in Workers :
        (Has(order[w]) /\ calls[w] # <<>>)
        => /\ calls[w][1].fn = "validate_order"
           /\ calls[w][1].ok = WellFormed(Val(order[w]))

\* validate_order has turned down an order whose only flaw is a negative
\* totalAmount
C20_Witness ==
    \E w \in Workers :
        /\ Has(order[w])
        /\ calls[w] # <<>>
        /\ ~calls[w][1].ok
        /\ Val(order[w]).customerId = Some("c1")
        /\ Val(order[w]).items = Some(ItemList(<<"X">>))
        /\ Val(order[w]).totalAmount = Some(-1)

\* C21: when the query for the order id of a dispatched message returns no
\* item, process_order returns False in that one step (one read, no retry):
\* the table stays as it is (no item is created), no executor, update or
\* notification call is made, and the order id is appended to failed_orders.
C21_NotFoundReportsFailure ==
    [][\A w \in Workers :
          (/\ Dispatches(w)
           /\ Query(table, order_id(w)) = <<>>
           /\ Took(w)
           /\ po'[w] # "raised")
          => /\ po'[w] = "false"
             /\ failed_orders'[w] = Append(failed_orders[w], order_id(w))
             /\ processed_orders'[w] = processed_orders[w]
             /\ pc'[w] = "loop"
             /\ idx'[w] = idx[w] + 1
             /\ table' = table
             /\ order'[w] = None
             /\ pipelines' = pipelines
             /\ calls'[w] = <<>>
             /\ writes'[w] = <<>>
             /\ notes'[w] = <<>>]_vars

\* the message of an order id without item was reported as failed and the
\* table holds no item for it
C21_Witness ==
    \E w \in Workers :
        /\ pc[w] = "returned"
        /\ po[w] = "false"
        /\ ~Has(order[w])
        /\ Val(response[w]).failedOrders = Some(<<GhostId>>)
        /\ ItemsOf(table, GhostId) = {}

\* C23: every PENDING item create_order has written has a non-empty list of
\* items and a totalAmount greater than 0.
C23_PendingRecordsAreValid ==
    \A r \in table :
        r.status = Some("PENDING")
        => /\ Has(r.items)
           /\ Val(r.items).list
           /\ Len(Val(r.items).elems) > 0
           /\ Has(r.totalAmount)
           /\ Val(r.totalAmount) > 0

\* the messages of the queue that name order id oid
MessagesFor(oid) == {i \in 1..Len(queue) : queue[i].orderId = Some(oid)}

\* C24: for every item create_order has written the queue holds exactly one
\* PROCESS_ORDER message naming its order id, and every message of the queue
\* names the order id of an item.
C24_OneMessagePerRecord ==
    /\ \A r \in table :
          /\ Cardinality(MessagesFor(r.orderId)) = 1
          /\ \A i \in MessagesFor(r.orderId) : queue[i].action = Some("PROCESS_ORDER")
    /\ \A i \in 1..Len(queue) : \E r \in table : queue[i].orderId = Some(r.orderId)

\* C22: a handler invocation that has started on a batch reaches its return,
\* and when it has returned the loop is past the last record, no
\* process_order call is left running and the response is there.
C22_BatchTerminates ==
    /\ \A w \in Workers : (pc[w] \notin {"idle", "returned"}) ~> (pc[w] = "returned")
    /\ [](\A w \in Workers :
             (pc[w] = "returned" /\ Has(event[w]))
             => /\ idx[w] = Len(Records(w)) + 1
                /\ po[w] # "running"
                /\ Has(response[w]))

\* a batch of two messages has been worked off: one order went through the
\* pipeline to its end, the other message failed
C22_Witness ==
    \E w \in Workers :
        /\ pc[w] = "returned"
        /\ Has(event[w])
        /\ Len(Records(w)) = 2
        /\ pipelines = 1
        /\ terminals = 1
        /\ Len(Val(Val(response[w]).processedOrders)) = 1
        /\ Len(Val(Val(response[w]).failedOrders)) = 1

\* C25: whenever process_order loads a record whose status reads PENDING it
\* enters the step loop, whatever any other invocation is doing with the
\* same order at that moment: nothing but the status read decides.
C25_GateAdmitsConcurrentDuplicate ==
    [][\A w \in Workers :
          (/\ Dispatches(w)
           /\ Took(w)
           /\ Has(order'[w])
           /\ current_status(Val(order'[w])) = "PENDING")
          => /\ pc'[w] = "update"
             /\ po'[w] = "running"
             /\ pipelines' = Counted(pipelines)]_vars

\* two overlapping invocations have both run process_payment for the same
\* order and both have sent a terminal notification
C25_Witness ==
    /\ pipelines = 2
    /\ terminals = 2
    /\ \A w \in Workers :
          /\ Has(order[w])
          /\ Val(order[w]).orderId = UUIDs[1]
          /\ Len(calls[w]) >= 3
          /\ calls[w][3].fn = "process_payment"
          /\ Len(notes[w]) = 1

\* C26 as worded: with deliveries that follow one another, validate_order
\* (and with it every executor) runs in one pipeline only and one terminal
\* notification is sent, also when store updates fault.
C26_AtMostOncePerOrder ==
    /\ \A w \in Workers : pipelines >= 2 => calls[w] = <<>>
    /\ terminals <= 1

\* C26 amended: a delivery enters the step loop only while no status update
\* of the order has taken effect, an entry sends at most one terminal
\* notification, and there are never more terminal notifications than
\* entries: after an update that took effect no executor runs again and no
\* further notification is sent.
C26_RerunOnlyWhileNoUpdateLanded ==
    [][/\ (\E w \in Workers : pc[w] = "loop" /\ pc'[w] = "update") => ~landed
       /\ \A w \in Workers : Len(notes'[w]) <= 1
       /\ terminals' <= pipelines'
       /\ (landed /\ pipelines <= 1) => pipelines' = pipelines]_vars

\* the same message came twice in one batch: the first delivery ran the
\* pipeline with its updates taking effect, the second was turned away at
\* the gate
C26_Witness ==
    \E w \in Workers :
        /\ Has(event[w])
        /\ Len(Records(w)) = 2
        /\ Records(w)[1] = Records(w)[2]
        /\ idx[w] = 3
        /\ pipelines = 1
        /\ terminals = 1
        /\ landed
        /\ po[w] = "true"
        /\ calls[w] = <<>>
        /\ Len(processed_orders[w]) + Len(failed_orders[w]) = 2

\* executor k leaves through its except clause on order o: float() raises
\* on a totalAmount that is not a number, iterating or measuring items
\* raises when the key is absent or the value is not a list
Faults(k, o) ==
    CASE k = 1 -> /\ \A i \in 1..Len(required_fields) :
                        /\ Has(FieldOf(required_fields[i], o))
                        /\ Truthy(required_fields[i], o)
                  /\ Val(o.items).list
                  /\ Len(Val(o.items).elems) > 0
                  /\ Val(o.totalAmount) = NotNumeric
      [] k = 2 -> ~Has(o.items) \/ ~Val(o.items).list
      [] k = 3 -> ~Has(o.totalAmount) \/ Val(o.totalAmount) = NotNumeric
      [] k = 4 -> ~Has(o.items) \/ ~Val(o.items).list

\* the executor worker w called last hit an internal fault
FaultedStep(w) ==
    /\ Has(order[w])
    /\ calls[w] # <<>>
    /\ Faults(Len(calls[w]), Val(order[w]))

\* what C27 says of the calls, the sinks and the handler
C27_Reports(w) ==
    /\ ~calls[w][Len(calls[w])].ok
    /\ po[w] \in {"running", "false"}
    /\ pc[w] \notin {"update", "complete_update", "complete_notify"}
    /\ pc[w] \in {"loop", "returned"}
         => /\ po[w] = "false"
            /\ Len(notes[w]) = 1
            /\ notes[w][1].event = "FAILED"
            /\ failed_orders[w][Len(failed_orders[w])] = Val(order[w]).orderId

\* what C27 says of the record once process_order has returned
C27_Record(w) ==
    pc[w] \in {"loop", "returned"}
    => /\ Persisted(w).status = Some("FAILED")
       /\ Persisted(w).errorMessage = Some("Failed at " \o StepStatus(Len(calls[w])))

\* C27 as worded: when an executor hits an internal fault the step counts
\* as failed: no later executor runs, the record is FAILED with errorMessage
\* "Failed at <step>", a failure notification is sent, process_order returns
\* False and the order id is in failed_orders; no exception leaves
\* process_order.
C27_ExecutorFaultOutcome ==
    \A w \in Workers : FaultedStep(w) => C27_Reports(w) /\ C27_Record(w)

\* C27 amended: the record is FAILED with that errorMessage whenever the
\* FAILED update took effect and no other invocation has written the record
\* since this one loaded it; the rest is as worded in every case.
C27_ExecutorFaultOutcomeAmended ==
    \A w \in Workers :
        FaultedStep(w) => /\ C27_Reports(w)
                          /\ (wrote[w] /\ ~interfered[w] => C27_Record(w))

\* float() raised inside validate_order on a totalAmount that is not a
\* number, and the order ended FAILED at VALIDATING
C27_Witness ==
    \E w \in Workers :
        /\ FaultedStep(w)
        /\ Val(order[w]).totalAmount = Some(NotNumeric)
        /\ pc[w] = "returned"
        /\ calls[w] = <<[fn |-> "validate_order", ok |-> FALSE]>>
        /\ wrote[w]
        /\ Persisted(w).status = Some("FAILED")
        /\ Persisted(w).errorMessage = Some("Failed at VALIDATING")
        /\ Len(notes[w]) = 1

\* C28: when a terminal notification has been sent, the latest
\* update_order_status call of that process_order invocation was the one
\* with the same terminal status: the write is attempted first.
C28_TerminalWriteBeforeNotification ==
    \A w \in Workers : \A i \in 1..Len(notes[w]) :
        /\ notes[w][i].event \in {"FAILED", "COMPLETED"}
        /\ writes[w] # <<>>
        /\ writes[w][Len(writes[w])] = notes[w][i].event

\* the FAILED update was attempted and faulted, then the failure
\* notification was sent
C28_Witness ==
    \E w \in Workers :
        /\ Len(notes[w]) = 1
        /\ notes[w][1].event = "FAILED"
        /\ writes[w][Len(writes[w])] = "FAILED"
        /\ ~wrote[w]
        /\ Persisted(w).status # Some("FAILED")

\* C29: while the handler works on a batch the two lists together hold one
\* entry for each record the loop has finished, and at the return one entry
\* for every record of the batch, in the response as well.
C29_OneEntryPerMessage ==
    \A w \in Workers :
        Has(event[w])
        => /\ Len(processed_orders[w]) + Len(failed_orders[w]) = idx[w] - 1
           /\ idx[w] <= Len(Records(w)) + 1
           /\ pc[w] = "returned"
                => /\ idx[w] = Len(Records(w)) + 1
                   /\ Val(response[w]).processedOrders = Some(processed_orders[w])
                   /\ Val(response[w]).failedOrders = Some(failed_orders[w])

\* the same message twice in one batch: the order id is listed twice, once
\* for the run of the pipeline and once for the delivery the gate skipped
C29_Witness ==
    \E w \in Workers :
        /\ pc[w] = "returned"
        /\ Has(event[w])
        /\ Len(Records(w)) = 2
        /\ Records(w)[1] = Records(w)[2]
        /\ Val(response[w]).processedOrders = Some(<<UUIDs[1], UUIDs[1]>>)
        /\ Val(response[w]).failedOrders = Some(<<>>)

\* C30: an item has an errorMessage only while its status is FAILED, also
\* after overlapping deliveries of the same order.
C30_ErrorMessageOnlyIfFailed ==
    \A r \in table : Has(r.errorMessage) => r.status = Some("FAILED")

\* worker w executes the return statement that ends the pipeline of a record
\* it found PENDING
ReturnsFromPipeline(w) ==
    /\ pc[w] \in {"fail_notify", "complete_notify"}
    /\ Took(w)

\* C31 as worded: with one invocation at a time, process_order returns True
\* for a record it found PENDING only if the persisted status is COMPLETED at
\* that moment, and False only if it is FAILED, also when a store update
\* failed silently.
C31_ReturnAgreesWithStatus ==
    [][\A w \in Workers :
          ReturnsFromPipeline(w)
          => /\ po'[w] = "true" => Persisted(w)'.status = Some("COMPLETED")
             /\ po'[w] = "false" => Persisted(w)'.status = Some("FAILED")]_vars

\* C31 amended: the value returned agrees with the terminal update that was
\* attempted last; the persisted status is that terminal status when the
\* update took effect, and is neither COMPLETED nor FAILED when it faulted.
C31_ReturnAgreesWithAttemptedStatus ==
    [][\A w \in Workers :
          ReturnsFromPipeline(w)
          => LET attempted == writes[w][Len(writes[w])]
                 status == Persisted(w)'.status
             IN  /\ po'[w] \in {"true", "false"}
                 /\ po'[w] = "true" <=> attempted = "COMPLETED"
                 /\ po'[w] = "false" <=> attempted = "FAILED"
                 /\ wrote[w] => status = Some(attempted)
                 /\ ~wrote[w] => status \notin {Some("COMPLETED"), Some("FAILED")}]_vars

\* process_order has returned True and the record is left at FULFILLMENT,
\* the COMPLETED update having faulted
C31_Witness ==
    \E w \in Workers :
        /\ pc[w] = "loop"
        /\ po[w] = "true"
        /\ writes[w] # <<>>
        /\ writes[w][Len(writes[w])] = "COMPLETED"
        /\ ~wrote[w]
        /\ Persisted(w).status = Some("FULFILLMENT")

\* the statuses of a record whose pipeline is under way
InFlightStatuses == {processing_steps[k].status : k \in 1..Len(processing_steps)}

\* C32: a record whose status is the name of a step eventually has status
\* COMPLETED or FAILED, when the handler keeps running and the message of
\* the order is delivered again and again, also after an invocation that
\* stopped mid-pipeline or a terminal update that failed silently.
C32_LeftPendingReachesTerminal ==
    \A s \in InFlightStatuses :
        (\E r \in table : r.status = Some(s))
        ~> (\E r \in table : r.status \in {Some("COMPLETED"), Some("FAILED")})

====
